---- MODULE Spec2Model ----
(***************************************************************************)
(* Model of gemini's partition workload coordinator (cmd/gemini/root.go:   *)
(* run, runJob, MixedJob, collectResults) and of the CQL store's mutation  *)
(* retry loop (cqlStore.mutate, cqlStore.doMutate, ignore).                *)
(*                                                                         *)
(* Spec      : runJob fanning out `threads` MixedJob workers and gathering *)
(*             their Statuses over the unbuffered results channel.         *)
(* SpecStore : one caller driving cqlStore.mutate calls one after another. *)
(***************************************************************************)
EXTENDS Integers, Sequences, FiniteSets

(* ------------------------------ bounds --------------------------------- *)
\* Largest --threads, --max-pk-per-thread and --max-tests explored, and the largest
\* total number of iterations of a run (threads * maxTests).
MaxThreads == 2
MaxKeys == 2
MaxTests == 2
MaxOps == 4
\* Largest cqlStore.maxRetriesMutate explored, and the number of mutate calls the
\* caller of the store makes.
MaxRetries == 2
MaxCalls == 2
\* Largest number of types (and of bound values) of a statement explored, and the
\* largest number of elements of a list or set value.
MaxTypes == 2
MaxBag == 2
MaxCols == 3
MaxMVs == 2
MaxStmts == 2

(* ------------------------- values of the model ------------------------- *)
\* A nil error.
Nil == "nil"
\* What Session.Mutate can hand back to MixedJob: nil or some error.
MutateResults == {Nil, "ErrMutate"}
\* What Session.Check can hand back: nil, the empty-read sentinel, or a mismatch.
ErrReadNoDataReturned == "ErrReadNoDataReturned"
CheckResults == {Nil, ErrReadNoDataReturned, "ErrRowDifference"}
\* No partition key drawn (no statement of the iteration generated yet).
NoKey == 0 - 1

Workers == 0 .. (MaxThreads - 1)

VARIABLES
    threads,            \* flag --threads
    pkNumberPerThread,  \* flag --max-pk-per-thread
    maxTests,           \* flag --max-tests
    pcMain,             \* runJob: "launch", "gather", "done"
    li,                 \* runJob: i of the launching loop
    gi,                 \* runJob: i of the gathering loop
    testRes,            \* runJob: the running total
    pc,                 \* MixedJob, per worker: "idle", "loop", "mutate", "gen_check", "check", "send", "done"
    iter,               \* MixedJob: i of the loop
    testStatus,         \* MixedJob: the worker's Status
    p,                  \* MixedJob: the PartitionRange the worker was given
    mutPk,              \* partition key of the mutate statement of the current iteration
    chkPk,              \* partition key of the check statement of the current iteration
    hist,               \* per worker, what the store was asked and what it answered
    recv,               \* the workers runJob has received a Status from, in order
    rngPos              \* draws made so far from the source rand.Seed(seed) has seeded

VARIABLES
    maxRetriesMutate,   \* cqlStore.maxRetriesMutate
    ctxErr,             \* ctx.Err(): Nil until the context is cancelled or times out
    spc,                \* cqlStore.mutate: "idle" (not in a call), "loop", "select"
    si,                 \* cqlStore.mutate: i
    serr,               \* cqlStore.mutate: the named result err
    timerFired,         \* the channel of time.After(maxRetriesMutateSleep) is ready
    attempts,           \* what query.Exec answered in each doMutate of the current call
    sleeps,             \* sleeps of the current call that ran to their end
    ret,                \* what the last call of mutate returned
    ops,                \* the ops counter of the store
    calls,              \* mutate calls made so far
    callerStatus,       \* the Status of the caller of mutate
    statusAtCall        \* callerStatus when the current call was made

VARIABLES
    stmt,               \* Stmt: its Types and its Values, as PrettyCQL was called on it
    query,              \* PrettyCQL: query
    values,             \* PrettyCQL: values, the values not yet consumed
    tidx,               \* PrettyCQL: position in s.Types of the range loop
    ppc,                \* PrettyCQL: "start", "loop", "done", "panic"
    lastCall            \* the last call of CQLPretty: its arguments and its results

wvars == <<threads, pkNumberPerThread, maxTests, pcMain, li, gi, testRes,
           pc, iter, testStatus, p, mutPk, chkPk, hist, recv, rngPos>>

svars == <<maxRetriesMutate, ctxErr, spc, si, serr, timerFired, attempts, sleeps,
           ret, ops, calls, callerStatus, statusAtCall>>

pvars == <<stmt, query, values, tidx, ppc, lastCall>>

VARIABLES
    table,      \* the Table whose deletable columns are asked for
    valid,      \* result of the last ValidColumnsForDelete call
    fresh,      \* whether valid was computed from the present table
    cols,       \* the Columns value being taken apart
    removed     \* the last Remove call: its receiver, argument and result

tvars == <<table, valid, fresh, cols, removed>>

VARIABLES
    dropSchema,   \* the drop-schema flag
    dropStmts,    \* len(schema.GetDropSchema())
    createStmts,  \* len(schema.GetCreateSchema())
    ri,           \* position of run in the range loop it is in
    applied       \* the schema statements handed to session.Mutate, with their results

rvars == <<dropSchema, dropStmts, createStmts, ri, applied>>

vars == <<wvars, svars, pvars, tvars, rvars>>

(* ------------------------------ Status --------------------------------- *)
Status0 == [WriteOps |-> 0, WriteErrors |-> 0, ReadOps |-> 0, ReadErrors |-> 0]

\* A faulty collectResults: the write errors are summed from the wrong field.
collectResults_wrongField(one, sum) ==
    [WriteOps    |-> sum.WriteOps + one.WriteOps,
     WriteErrors |-> sum.WriteErrors + one.WriteOps,
     ReadOps     |-> sum.ReadOps + one.ReadOps,
     ReadErrors  |-> sum.ReadErrors + one.ReadErrors]

collectResults(one, sum) ==
    [WriteOps    |-> sum.WriteOps + one.WriteOps,
     WriteErrors |-> sum.WriteErrors + one.WriteErrors,
     ReadOps     |-> sum.ReadOps + one.ReadOps,
     ReadErrors  |-> sum.ReadErrors + one.ReadErrors]

(* ---------------------------- runJob ----------------------------------- *)
minRange == 0
maxRange == pkNumberPerThread

\* A faulty RangeOf: Max taken as an inclusive bound.
RangeOf_inclusive(i) ==
    [Min |-> minRange + i * maxRange, Max |-> maxRange + i * maxRange + 1]

\* The PartitionRange runJob builds for worker i.
RangeOf(i) == [Min |-> minRange + i * maxRange, Max |-> maxRange + i * maxRange]

NoRange == [Min |-> 0, Max |-> 0]

\* Nothing asked of the store yet. mutErr is what s.Mutate returned in the current
\* iteration; chkAfterFail counts the checks dispatched after a failed mutate.
Hist0 == [mutDispatched |-> 0, mutReturned |-> 0, mutFailed |-> 0, mutErr |-> Nil,
          chkDispatched |-> 0, chkReturned |-> 0, chkAfterFail |-> 0,
          chkNil |-> 0, chkEmpty |-> 0, chkFailed |-> 0, sends |-> 0]

\* The store before any call of mutate, with maxRetriesMutate as configured.
StoreInit(retries) ==
    /\ maxRetriesMutate \in retries
    /\ ctxErr = Nil
    /\ spc = "idle"
    /\ si = 0
    /\ serr = Nil
    /\ timerFired = FALSE
    /\ attempts = <<>>
    /\ sleeps = 0
    /\ ret = Nil
    /\ ops = 0
    /\ calls = 0
    /\ callerStatus = Status0
    /\ statusAtCall = Status0

\* The flags as given, no goroutine launched, nothing received.
JobState(ns, ks, ms) ==
    /\ threads \in ns
    /\ pkNumberPerThread \in ks
    /\ maxTests \in ms
    /\ threads * maxTests <= MaxOps
    /\ li = 0
    /\ gi = 0
    /\ testRes = Status0
    /\ pc = [w \in Workers |-> "idle"]
    /\ iter = [w \in Workers |-> 0]
    /\ testStatus = [w \in Workers |-> Status0]
    /\ p = [w \in Workers |-> NoRange]
    /\ mutPk = [w \in Workers |-> NoKey]
    /\ chkPk = [w \in Workers |-> NoKey]
    /\ hist = [w \in Workers |-> Hist0]
    /\ recv = <<>>
    /\ rngPos = 0

\* runJob about to start, with the flags as given.
JobInit(ns, ks, ms) ==
    /\ JobState(ns, ks, ms)
    /\ pcMain = "launch"

\* What session.Mutate(stmt) can answer for a schema statement.
SchemaResults == {Nil, "ErrSchema"}

\* A faulty AfterSchemaMutate: run goes on after a failed schema statement.
AfterSchemaMutate_goOn(err, next) == next

\* if err := session.Mutate(stmt); err != nil { fmt.Printf("%v", err); return }
AfterSchemaMutate(err, next) == IF err # Nil THEN "returned" ELSE next

\* The schema statements of run: the flag, and how many statements there are to
\* drop and to create the schema; none applied yet.
RunInit(flags, drops, creates) ==
    /\ dropSchema \in flags
    /\ dropStmts \in drops
    /\ createStmts \in creates
    /\ ri = 0
    /\ applied = <<>>

(* ------------------- typedef: Stmt.PrettyCQL, CQLPretty ---------------- *)
TYPE_LIST == "list"
TYPE_SET == "set"

\* Strings are sequences of one-character strings. The bodies of the text values
\* explored: one without and one with a question mark.
TextBodies == {<<"a">>, <<"?">>}

SeqsUpTo(S, n) == UNION {[1 .. k -> S] : k \in 0 .. n}

\* A bound value: a text, or a slice of texts (s holds the body of the text, or
\* the bodies of the elements).
TextValue(b) == [k |-> "text", s |-> <<b>>]
SliceValue(bs) == [k |-> "slice", s |-> bs]
AllValues ==
    {TextValue(b) : b \in TextBodies}
      \cup {SliceValue(bs) : bs \in SeqsUpTo(TextBodies, MaxBag)}

\* The types explored: text, list<text>, set<text>.
SimpleText == [kind |-> "simple", ComplexType |-> "text"]
BagOf(c) == [kind |-> "bag", ComplexType |-> c]
AllTypes == {SimpleText, BagOf(TYPE_LIST), BagOf(TYPE_SET)}

\* LenValue() of a type: 1 for a simple type and for a bag.
LenValue(typ) == 1

\* "?,?,...,?": n placeholders joined by commas.
RECURSIVE Holders(_)
Holders(n) ==
    IF n = 0 THEN <<>>
    ELSE IF n = 1 THEN <<"?">>
    ELSE <<"?", ",">> \o Holders(n - 1)

\* s.Query.ToCql(): the statement of the builder, one placeholder for each type.
ToCql(types) == <<"(">> \o Holders(Len(types)) \o <<")">>

\* Whether string q holds a question mark.
HasHole(q) == \E i \in 1 .. Len(q) : q[i] = "?"

\* strings.Replace(q, "?", new, 1)
ReplaceFirst(q, new) ==
    IF ~HasHole(q) THEN q
    ELSE LET i == CHOOSE j \in 1 .. Len(q) :
                    q[j] = "?" /\ \A h \in 1 .. (j - 1) : q[h] # "?"
         IN  SubSeq(q, 1, i - 1) \o new \o SubSeq(q, i + 1, Len(q))

\* The printed literal of a text with body b.
Literal(b) == <<"'">> \o b \o <<"'">>

\* What a call of CQLPretty yields: a panic, or the new query and the count consumed.
Panic(q) == [panic |-> TRUE, query |-> q, n |-> 0]
Yield(q, n) == [panic |-> FALSE, query |-> q, n |-> n]

\* SimpleType.CQLPretty for text: the leftmost placeholder becomes the literal of
\* the first value; a value that is no text is a mismatch.
SimplePretty(q, v) ==
    IF Len(v) = 0 THEN Yield(q, 0)
    ELSE IF v[1].k # "text" THEN Panic(q)
    ELSE Yield(ReplaceFirst(q, Literal(v[1].s[1])), 1)

\* strings.Repeat("?,", n)
RECURSIVE Repeat(_)
Repeat(n) == IF n = 0 THEN <<>> ELSE <<"?", ",">> \o Repeat(n - 1)

\* strings.TrimRight(vv, ",")
RECURSIVE TrimRight(_)
TrimRight(vv) ==
    IF Len(vv) > 0 /\ vv[Len(vv)] = "," THEN TrimRight(SubSeq(vv, 1, Len(vv) - 1)) ELSE vv

\* for i := 0; i < s.Len(); i++ { vv, _ = ct.ValueType.CQLPretty(vv, {s.Index(i)}) }
RECURSIVE FillBag(_, _, _)
FillBag(vv, s, i) ==
    IF i > Len(s) THEN vv
    ELSE FillBag(SimplePretty(vv, <<TextValue(s[i])>>).query, s, i + 1)

\* A faulty IsSlice: the kind of the value is not looked at.
IsSlice_unchecked(val) == TRUE

\* reflect.TypeOf(value[0]).Kind() == reflect.Slice
IsSlice(val) == val.k = "slice"

\* BagType.CQLPretty
BagPretty(ct, q, v) ==
    IF Len(v) = 0 THEN Yield(q, 0)
    ELSE IF ~IsSlice(v[1]) THEN Panic(q)
    ELSE LET s == v[1].s
             op == IF ct.ComplexType = TYPE_SET THEN "{" ELSE "["
             cl == IF ct.ComplexType = TYPE_SET THEN "}" ELSE "]"
             vv == TrimRight(<<op>> \o Repeat(Len(s))) \o <<cl>>
         IN  Yield(ReplaceFirst(q, FillBag(vv, s, 1)), 1)

\* typ.CQLPretty(query, values), by the type of typ.
CQLPretty(typ, q, v) ==
    IF typ.kind = "bag" THEN BagPretty(typ, q, v) ELSE SimplePretty(q, v)

\* No call of CQLPretty made yet.
NoCall == [made |-> FALSE, typ |-> SimpleText, query |-> <<>>, values |-> <<>>,
           out |-> Yield(<<>>, 0)]

\* PrettyCQL about to run on one of the statements stmts.
PrettyInit(stmts) ==
    /\ stmt \in stmts
    /\ query = <<>>
    /\ values = <<>>
    /\ tidx = 1
    /\ ppc = "start"
    /\ lastCall = NoCall

\* The statements explored: up to MaxTypes types, up to MaxTypes values of any kind.
AllStmts == [Types : SeqsUpTo(AllTypes, MaxTypes), Values : SeqsUpTo(AllValues, MaxTypes)]
NoStmt == [Types |-> <<>>, Values |-> <<>>]

(* ------------- typedef: Columns, Table.ValidColumnsForDelete ----------- *)
\* Column names (GenColumnName("col", i)) and the kinds of column type that the
\* Columns primitives tell apart.
ColumnNames == 0 .. (MaxCols - 1)
ColumnTypes == {"list", "tuple", "counter"}
ColumnDef(n, t) == [Name |-> n, Type |-> t]

\* The Columns values explored: up to MaxCols columns with unique names.
AllColumns ==
    {c \in SeqsUpTo([Name : ColumnNames, Type : ColumnTypes], MaxCols) :
        \A i, j \in 1 .. Len(c) : i # j => c[i].Name # c[j].Name}

\* Columns.Len
ColumnsLen(c) == Len(c)

\* Columns.Names
Names(c) == [i \in 1 .. Len(c) |-> c[i].Name]

\* Columns.NonCounters
RECURSIVE NonCounters(_)
NonCounters(c) ==
    IF Len(c) = 0 THEN <<>>
    ELSE IF Head(c).Type = "counter" THEN NonCounters(Tail(c))
    ELSE <<Head(c)>> \o NonCounters(Tail(c))

\* The sequence c without its element at position i.
Splice(c, i) == SubSeq(c, 1, i - 1) \o SubSeq(c, i + 1, Len(c))

\* A faulty Remove that cuts the sequence at the column.
Remove_truncate(c, column) ==
    IF \E i \in 1 .. Len(c) : c[i] = column
    THEN SubSeq(c, 1, (CHOOSE i \in 1 .. Len(c) :
                          c[i] = column /\ \A h \in 1 .. (i - 1) : c[h] # column) - 1)
    ELSE c

\* Columns.Remove(column): the sequence without the first occurrence of column.
Remove(c, column) ==
    IF \E i \in 1 .. Len(c) : c[i] = column
    THEN Splice(c, CHOOSE i \in 1 .. Len(c) :
                      c[i] = column /\ \A h \in 1 .. (i - 1) : c[h] # column)
    ELSE c

\* NonPrimaryKey: nil
NoColumn == ColumnDef(0 - 1, "none")

\* The columns of the table of getTestSchema, n of them: col0 .. col(n-1), none a counter.
TableColumns(n) == [i \in 1 .. n |-> ColumnDef(i - 1, "list")]

\* The ascending sequence of the members of a set of column names.
RECURSIVE Ascending(_)
Ascending(S) ==
    IF S = {} THEN <<>>
    ELSE LET lo == CHOOSE x \in S : \A y \in S : x <= y
         IN  <<lo>> \o Ascending(S \ {lo})

\* Indexes of the table: one IndexDef for each column of names, in order.
IndexesOn(columns, names) ==
    LET a == Ascending(names) IN [i \in 1 .. Len(a) |-> [Column |-> columns[a[i] + 1]]]

\* validCols without the first column called name.
RemoveName(validCols, name) ==
    IF \E j \in 1 .. Len(validCols) : validCols[j].Name = name
    THEN Splice(validCols, CHOOSE j \in 1 .. Len(validCols) :
                   validCols[j].Name = name
                     /\ \A h \in 1 .. (j - 1) : validCols[h].Name # name)
    ELSE validCols

\* for each index: drop the indexed column
RECURSIVE DropIndexed(_, _)
DropIndexed(validCols, indexes) ==
    IF Len(indexes) = 0 THEN validCols
    ELSE DropIndexed(RemoveName(validCols, Head(indexes).Column.Name), Tail(indexes))

\* for each materialized view that has a NonPrimaryKey: drop that column
RECURSIVE DropViewed(_, _)
DropViewed(validCols, mvs) ==
    IF Len(mvs) = 0 THEN validCols
    ELSE IF Head(mvs).NonPrimaryKey = NoColumn THEN DropViewed(validCols, Tail(mvs))
    ELSE DropViewed(RemoveName(validCols, Head(mvs).NonPrimaryKey.Name), Tail(mvs))

\* A ValidColumnsForDelete that looks at the materialized views only.
ValidColumnsForDelete_viewsOnly(t) == DropViewed(t.Columns, t.MaterializedViews)

\* Table.ValidColumnsForDelete
ValidColumnsForDelete(t) ==
    DropViewed(DropIndexed(t.Columns, t.Indexes), t.MaterializedViews)

\* getTestSchema: tables with up to MaxCols columns, any of them indexed, and one
\* materialized view without a NonPrimaryKey.
TestTables ==
    UNION {{[Columns |-> TableColumns(n),
             Indexes |-> IndexesOn(TableColumns(n), ix),
             MaterializedViews |-> <<[NonPrimaryKey |-> NoColumn]>>] :
                ix \in SUBSET (0 .. (n - 1))} : n \in 0 .. MaxCols}
NoTable == [Columns |-> <<>>, Indexes |-> <<>>, MaterializedViews |-> <<>>]

NoRemove == [made |-> FALSE, from |-> <<>>, column |-> NoColumn, out |-> <<>>]

\* A table about to be asked for its deletable columns, and a Columns value.
TableInit(tables, columns) ==
    /\ table \in tables
    /\ valid = <<>>
    /\ fresh = FALSE
    /\ cols \in columns
    /\ removed = NoRemove

Init ==
    /\ JobInit(1 .. MaxThreads, 1 .. MaxKeys, 0 .. MaxTests)
    /\ StoreInit({MaxRetries})
    /\ PrettyInit({NoStmt})
    /\ TableInit({NoTable}, {<<>>})
    /\ RunInit({FALSE}, {0}, {0})

\* for i := 0; i < threads; i++ { p := ...; go f(schema, s, p, c) }
Launch ==
    /\ pcMain = "launch"
    /\ li < threads
    /\ pc' = [pc EXCEPT ![li] = "loop"]
    /\ p' = [p EXCEPT ![li] = RangeOf(li)]
    /\ li' = li + 1
    /\ UNCHANGED <<svars, pvars, tvars, rvars>>
    /\ UNCHANGED <<rngPos, threads, pkNumberPerThread, maxTests, pcMain, gi, testRes,
                   iter, testStatus, mutPk, chkPk, hist, recv>>

\* The launching loop ends; the gathering loop starts at i = 0.
LaunchDone ==
    /\ pcMain = "launch"
    /\ ~(li < threads)
    /\ pcMain' = "gather"
    /\ gi' = 0
    /\ UNCHANGED <<svars, pvars, tvars, rvars>>
    /\ UNCHANGED <<rngPos, threads, pkNumberPerThread, maxTests, li, testRes,
                   pc, iter, testStatus, p, mutPk, chkPk, hist, recv>>

\* res := <-c; testRes = collectResults(res, testRes): the channel is unbuffered,
\* so the receive pairs with one worker blocked in `c <- testStatus`.
Receive(w) ==
    /\ pcMain = "gather"
    /\ gi < threads
    /\ pc[w] = "send"
    /\ pc' = [pc EXCEPT ![w] = "done"]
    /\ hist' = [hist EXCEPT ![w].sends = @ + 1]
    /\ testRes' = collectResults(testStatus[w], testRes)
    /\ recv' = Append(recv, w)
    /\ gi' = gi + 1
    /\ UNCHANGED <<svars, pvars, tvars, rvars>>
    /\ UNCHANGED <<rngPos, threads, pkNumberPerThread, maxTests, pcMain, li,
                   iter, testStatus, p, mutPk, chkPk>>

\* The gathering loop ends; printResults(testRes).
GatherDone ==
    /\ pcMain = "gather"
    /\ ~(gi < threads)
    /\ pcMain' = "done"
    /\ UNCHANGED <<svars, pvars, tvars, rvars>>
    /\ UNCHANGED <<rngPos, threads, pkNumberPerThread, maxTests, li, gi, testRes,
                   pc, iter, testStatus, p, mutPk, chkPk, hist, recv>>

(* ---------------------------- MixedJob --------------------------------- *)
\* The partition keys a statement generated for PartitionRange r can address:
\* a seed drawn from the half-open range [r.Min, r.Max).
GenPartition(r) == r.Min .. (r.Max - 1)

\* schema.GenMutateStmt(&p): the range the generator of the mutate statement is given.
MutateRange(w) == p[w]

\* A faulty CheckRange: the check is generated over the whole key space of the run.
CheckRange_whole(w) == [Min |-> 0, Max |-> threads * pkNumberPerThread]

\* schema.GenCheckStmt(&p): the range the generator of the check statement is given.
CheckRange(w) == p[w]

\* testStatus.WriteOps++
CountMutateCall(st) == [st EXCEPT !.WriteOps = @ + 1]

\* if err := s.Mutate(...); err != nil { testStatus.WriteErrors++ }
CountMutateResult(st, err) ==
    IF err # Nil THEN [st EXCEPT !.WriteErrors = @ + 1] ELSE st

\* A faulty CountCheckResult: the empty read is counted as an error.
CountCheckResult_noSentinel(st, err) ==
    IF err = Nil
    THEN [st EXCEPT !.ReadOps = @ + 1]
    ELSE [st EXCEPT !.ReadErrors = @ + 1]

\* err := s.Check(...); err == nil: ReadOps++; else, unless it is
\* ErrReadNoDataReturned: ReadErrors++
CountCheckResult(st, err) ==
    IF err = Nil
    THEN [st EXCEPT !.ReadOps = @ + 1]
    ELSE IF err # ErrReadNoDataReturned
         THEN [st EXCEPT !.ReadErrors = @ + 1]
         ELSE st

\* A faulty LoopCond: one iteration too many.
LoopCond_offByOne(w) == iter[w] <= maxTests

\* The loop condition of MixedJob.
LoopCond(w) == iter[w] < maxTests

\* A faulty AfterMutate: a failed mutate ends the loop.
AfterMutate_fatal(err) == IF err # Nil THEN "send" ELSE "gen_check"

\* Where MixedJob goes when s.Mutate has returned err: on to the check, error or not.
AfterMutate(err) == "gen_check"

\* A faulty CheckDispatchAt: the mutate is not awaited.
CheckDispatchAt_async == {"mutate", "gen_check"}

\* The worker states in which the check statement is generated and dispatched:
\* s.Mutate is a blocking call, the check follows its return.
CheckDispatchAt == {"gen_check"}

\* Generating one statement draws from the random source the generators use: the
\* process-wide source that run seeds, no source being handed to MixedJob or by
\* MixedJob to GenMutateStmt and GenCheckStmt. pos is its position, the result
\* its position after the draw.
DrawFrom(pos) == pos + 1

\* i < maxTests: generate the mutate statement, count the write, call s.Mutate.
MutateDispatch(w) ==
    /\ pc[w] = "loop"
    /\ LoopCond(w)
    /\ \E k \in GenPartition(MutateRange(w)) : mutPk' = [mutPk EXCEPT ![w] = k]
    /\ rngPos' = DrawFrom(rngPos)
    /\ testStatus' = [testStatus EXCEPT ![w] = CountMutateCall(@)]
    /\ hist' = [hist EXCEPT ![w].mutDispatched = @ + 1]
    /\ pc' = [pc EXCEPT ![w] = "mutate"]
    /\ UNCHANGED <<svars, pvars, tvars, rvars>>
    /\ UNCHANGED <<threads, pkNumberPerThread, maxTests, pcMain, li, gi, testRes,
                   iter, p, chkPk, recv>>

\* s.Mutate returns err.
MutateReturn(w) ==
    /\ pc[w] = "mutate"
    /\ \E err \in MutateResults :
         /\ testStatus' = [testStatus EXCEPT ![w] = CountMutateResult(@, err)]
         /\ hist' = [hist EXCEPT ![w].mutReturned = @ + 1,
                                 ![w].mutFailed = @ + (IF err # Nil THEN 1 ELSE 0),
                                 ![w].mutErr = err]
         /\ pc' = [pc EXCEPT ![w] = AfterMutate(err)]
    /\ UNCHANGED <<svars, pvars, tvars, rvars>>
    /\ UNCHANGED <<rngPos, threads, pkNumberPerThread, maxTests, pcMain, li, gi, testRes,
                   iter, p, mutPk, chkPk, recv>>

\* Generate the check statement, call s.Check.
CheckDispatch(w) ==
    /\ pc[w] \in CheckDispatchAt
    /\ \E k \in GenPartition(CheckRange(w)) : chkPk' = [chkPk EXCEPT ![w] = k]
    /\ rngPos' = DrawFrom(rngPos)
    /\ hist' = [hist EXCEPT ![w].chkDispatched = @ + 1,
                            ![w].chkAfterFail = @ + (IF hist[w].mutErr # Nil THEN 1 ELSE 0)]
    /\ pc' = [pc EXCEPT ![w] = "check"]
    /\ UNCHANGED <<svars, pvars, tvars, rvars>>
    /\ UNCHANGED <<threads, pkNumberPerThread, maxTests, pcMain, li, gi, testRes,
                   iter, testStatus, p, mutPk, recv>>

\* s.Check returns err; the iteration ends (i++).
CheckReturn(w) ==
    /\ pc[w] = "check"
    /\ \E err \in CheckResults :
         /\ testStatus' = [testStatus EXCEPT ![w] = CountCheckResult(@, err)]
         /\ hist' = [hist EXCEPT ![w].chkReturned = @ + 1,
                                 ![w].mutErr = Nil,
                                 ![w].chkNil = @ + (IF err = Nil THEN 1 ELSE 0),
                                 ![w].chkEmpty = @ + (IF err = ErrReadNoDataReturned THEN 1 ELSE 0),
                                 ![w].chkFailed = @ + (IF err \notin {Nil, ErrReadNoDataReturned} THEN 1 ELSE 0)]
    /\ iter' = [iter EXCEPT ![w] = @ + 1]
    /\ mutPk' = [mutPk EXCEPT ![w] = NoKey]
    /\ chkPk' = [chkPk EXCEPT ![w] = NoKey]
    /\ pc' = [pc EXCEPT ![w] = "loop"]
    /\ UNCHANGED <<svars, pvars, tvars, rvars>>
    /\ UNCHANGED <<rngPos, threads, pkNumberPerThread, maxTests, pcMain, li, gi, testRes,
                   p, recv>>

\* The loop is over: the worker blocks in `c <- testStatus` until runJob receives.
LoopExit(w) ==
    /\ pc[w] = "loop"
    /\ ~LoopCond(w)
    /\ pc' = [pc EXCEPT ![w] = "send"]
    /\ UNCHANGED <<svars, pvars, tvars, rvars>>
    /\ UNCHANGED <<rngPos, threads, pkNumberPerThread, maxTests, pcMain, li, gi, testRes,
                   iter, testStatus, p, mutPk, chkPk, hist, recv>>

Next ==
    \/ Launch
    \/ LaunchDone
    \/ \E w \in Workers : Receive(w)
    \/ GatherDone
    \/ \E w \in Workers : MutateDispatch(w)
    \/ \E w \in Workers : MutateReturn(w)
    \/ \E w \in Workers : CheckDispatch(w)
    \/ \E w \in Workers : CheckReturn(w)
    \/ \E w \in Workers : LoopExit(w)

Spec == Init /\ [][Next]_vars

(* --------------------------- cqlStore ---------------------------------- *)
\* context.Canceled and context.DeadlineExceeded.
Canceled == "context.Canceled"
DeadlineExceeded == "context.DeadlineExceeded"
ContextErrs == {Canceled, DeadlineExceeded}
\* Errors of the cluster that are no context errors (two, to tell attempts apart).
TransientErrs == {"e1", "e2"}
\* What query.Exec() can answer.
ExecResults == {Nil} \cup TransientErrs \cup ContextErrs

\* errors.Wrapf(err, "[cluster = %s, query = '%s']", ...)
Wrapf(err) ==
    CASE err = "e1" -> "wrapped(e1)"
      [] err = "e2" -> "wrapped(e2)"
      [] err = Canceled -> "wrapped(context.Canceled)"
      [] err = DeadlineExceeded -> "wrapped(context.DeadlineExceeded)"
      [] OTHER -> err

\* A faulty ignore: a deadline that passed is not taken for benign.
ignore_noDeadline(err) ==
    IF err = Nil
    THEN TRUE
    ELSE IF err = Canceled THEN TRUE ELSE FALSE

\* ignore(err): nil, or a context error.
ignore(err) ==
    IF err = Nil
    THEN TRUE
    ELSE IF err = Canceled \/ err = DeadlineExceeded THEN TRUE ELSE FALSE

\* cqlStore.doMutate, given what query.Exec() answered.
doMutate(exec) ==
    IF exec # Nil /\ ~ignore(exec) THEN Wrapf(exec) ELSE Nil

\* A faulty RetryCond: one attempt too many.
RetryCond_offByOne == si <= maxRetriesMutate

\* The loop condition of cqlStore.mutate.
RetryCond == si < maxRetriesMutate

\* mutate returns r to its caller, which counts it as MixedJob does.
Return(r) ==
    /\ ret' = r
    /\ callerStatus' = CountMutateResult(callerStatus, r)
    /\ spc' = "idle"

\* The caller counts the write and calls mutate: var i int; i = 0.
CallMutate ==
    /\ spc = "idle"
    /\ calls < MaxCalls
    /\ calls' = calls + 1
    /\ statusAtCall' = callerStatus
    /\ callerStatus' = CountMutateCall(callerStatus)
    /\ si' = 0
    /\ serr' = Nil
    /\ attempts' = <<>>
    /\ sleeps' = 0
    /\ timerFired' = FALSE
    /\ spc' = "loop"
    /\ UNCHANGED <<wvars, pvars, tvars, rvars>>
    /\ UNCHANGED <<maxRetriesMutate, ctxErr, ret, ops>>

\* i < maxRetriesMutate: err = cs.doMutate(...); on nil count the op and return nil,
\* otherwise enter the select with a fresh timer.
Attempt ==
    /\ spc = "loop"
    /\ RetryCond
    /\ \E exec \in ExecResults :
         /\ attempts' = Append(attempts, exec)
         /\ serr' = doMutate(exec)
         /\ IF doMutate(exec) = Nil
            THEN /\ ops' = ops + 1
                 /\ Return(Nil)
            ELSE /\ spc' = "select"
                 /\ UNCHANGED <<ops, ret, callerStatus>>
    /\ timerFired' = FALSE
    /\ UNCHANGED <<wvars, pvars, tvars, rvars>>
    /\ UNCHANGED <<maxRetriesMutate, ctxErr, si, sleeps, calls, statusAtCall>>

\* time.After(cs.maxRetriesMutateSleep) delivers.
TimerFire ==
    /\ spc = "select"
    /\ ~timerFired
    /\ timerFired' = TRUE
    /\ UNCHANGED <<wvars, pvars, tvars, rvars>>
    /\ UNCHANGED <<maxRetriesMutate, ctxErr, spc, si, serr, attempts, sleeps,
                   ret, ops, calls, callerStatus, statusAtCall>>

\* case <-time.After(...): the sleep is over; i++.
SelectTimer ==
    /\ spc = "select"
    /\ timerFired
    /\ sleeps' = sleeps + 1
    /\ si' = si + 1
    /\ spc' = "loop"
    /\ UNCHANGED <<wvars, pvars, tvars, rvars>>
    /\ UNCHANGED <<maxRetriesMutate, ctxErr, serr, timerFired, attempts,
                   ret, ops, calls, callerStatus, statusAtCall>>

\* case <-ctx.Done(): return ctx.Err()
SelectDone ==
    /\ spc = "select"
    /\ ctxErr # Nil
    /\ Return(ctxErr)
    /\ UNCHANGED <<wvars, pvars, tvars, rvars>>
    /\ UNCHANGED <<maxRetriesMutate, ctxErr, si, serr, timerFired, attempts, sleeps,
                   ops, calls, statusAtCall>>

\* The loop is over: log "failed to apply mutation"; return err.
RetriesExhausted ==
    /\ spc = "loop"
    /\ ~RetryCond
    /\ Return(serr)
    /\ UNCHANGED <<wvars, pvars, tvars, rvars>>
    /\ UNCHANGED <<maxRetriesMutate, ctxErr, si, serr, timerFired, attempts, sleeps,
                   ops, calls, statusAtCall>>

\* The owner of ctx cancels it, or its deadline passes.
Cancel ==
    /\ ctxErr = Nil
    /\ ctxErr' \in ContextErrs
    /\ UNCHANGED <<wvars, pvars, tvars, rvars>>
    /\ UNCHANGED <<maxRetriesMutate, spc, si, serr, timerFired, attempts, sleeps,
                   ret, ops, calls, callerStatus, statusAtCall>>

NextStore ==
    \/ CallMutate
    \/ Attempt
    \/ TimerFire
    \/ SelectTimer
    \/ SelectDone
    \/ RetriesExhausted
    \/ Cancel

InitStore ==
    /\ JobInit({1}, {1}, {0})
    /\ StoreInit((0 - 1) .. MaxRetries)
    /\ PrettyInit({NoStmt})
    /\ TableInit({NoTable}, {<<>>})
    /\ RunInit({FALSE}, {0}, {0})

SpecStore == InitStore /\ [][NextStore]_vars

\* runJob while the owner of the context propagated to the store may cancel it.
NextCancel == Next \/ Cancel

SpecCancel == Init /\ [][NextCancel]_vars

(* --------------------------- Stmt.PrettyCQL ---------------------------- *)
\* query, _ := s.Query.ToCql(); values := s.Values.Copy();
\* if len(values) == 0 { return query }
PrettyStart ==
    /\ ppc = "start"
    /\ query' = ToCql(stmt.Types)
    /\ values' = stmt.Values
    /\ ppc' = IF Len(stmt.Values) = 0 THEN "done" ELSE "loop"
    /\ UNCHANGED <<stmt, tidx, lastCall>>
    /\ UNCHANGED <<wvars, svars, tvars, rvars>>

\* One turn of the range loop: query, replaced = typ.CQLPretty(query, values);
\* values = values[replaced:] (replaced never exceeds len(values)). A panic of
\* CQLPretty ends PrettyCQL.
PrettyIter ==
    /\ ppc = "loop"
    /\ tidx <= Len(stmt.Types)
    /\ LET typ == stmt.Types[tidx]
           r == CQLPretty(typ, query, values)
       IN  /\ lastCall' = [made |-> TRUE, typ |-> typ, query |-> query,
                           values |-> values, out |-> r]
           /\ IF r.panic
              THEN /\ ppc' = "panic"
                   /\ UNCHANGED <<query, values, tidx>>
              ELSE /\ query' = r.query
                   /\ IF Len(values) >= r.n
                      THEN /\ values' = SubSeq(values, r.n + 1, Len(values))
                           /\ tidx' = tidx + 1
                           /\ ppc' = "loop"
                      ELSE /\ ppc' = "done"
                           /\ UNCHANGED <<values, tidx>>
    /\ UNCHANGED stmt
    /\ UNCHANGED <<wvars, svars, tvars, rvars>>

\* The types are exhausted: return query.
PrettyReturn ==
    /\ ppc = "loop"
    /\ tidx > Len(stmt.Types)
    /\ ppc' = "done"
    /\ UNCHANGED <<stmt, query, values, tidx, lastCall>>
    /\ UNCHANGED <<wvars, svars, tvars, rvars>>

NextPretty ==
    \/ PrettyStart
    \/ PrettyIter
    \/ PrettyReturn

InitPretty ==
    /\ JobInit({1}, {1}, {0})
    /\ StoreInit({MaxRetries})
    /\ PrettyInit(AllStmts)
    /\ TableInit({NoTable}, {<<>>})
    /\ RunInit({FALSE}, {0}, {0})

SpecPretty == InitPretty /\ [][NextPretty]_vars

(* ---------------------- TestValidColumnsForDelete ----------------------- *)
\* validColsToDelete = s1.Tables[0].ValidColumnsForDelete()
CallValidColumnsForDelete ==
    /\ ~fresh
    /\ valid' = ValidColumnsForDelete(table)
    /\ fresh' = TRUE
    /\ UNCHANGED <<table, cols, removed>>
    /\ UNCHANGED <<wvars, svars, pvars, rvars>>

\* s1.Tables[0].MaterializedViews[i].NonPrimaryKey = s1.Tables[0].Columns[c]
SetNonPrimaryKey(i, c) ==
    /\ i \in 1 .. Len(table.MaterializedViews)
    /\ c \in 1 .. Len(table.Columns)
    /\ table' = [table EXCEPT !.MaterializedViews[i].NonPrimaryKey = table.Columns[c]]
    /\ fresh' = FALSE
    /\ UNCHANGED <<valid, cols, removed>>
    /\ UNCHANGED <<wvars, svars, pvars, rvars>>

\* MaterializedViews = append(MaterializedViews, MaterializedViews[0])
AppendView ==
    /\ Len(table.MaterializedViews) \in 1 .. (MaxMVs - 1)
    /\ table' = [table EXCEPT !.MaterializedViews = Append(@, @[1])]
    /\ fresh' = FALSE
    /\ UNCHANGED <<valid, cols, removed>>
    /\ UNCHANGED <<wvars, svars, pvars, rvars>>

NextTable ==
    \/ CallValidColumnsForDelete
    \/ \E i \in 1 .. MaxMVs, c \in 1 .. MaxCols : SetNonPrimaryKey(i, c)
    \/ AppendView

InitTable ==
    /\ JobInit({1}, {1}, {0})
    /\ StoreInit({MaxRetries})
    /\ PrettyInit({NoStmt})
    /\ TableInit(TestTables, {<<>>})
    /\ RunInit({FALSE}, {0}, {0})

SpecTable == InitTable /\ [][NextTable]_vars

(* ----------------------------- TestPrimitives --------------------------- *)
\* cols = cols.Remove(cols[i])
RemoveColumn(i) ==
    /\ i \in 1 .. Len(cols)
    /\ removed' = [made |-> TRUE, from |-> cols, column |-> cols[i],
                   out |-> Remove(cols, cols[i])]
    /\ cols' = Remove(cols, cols[i])
    /\ UNCHANGED <<table, valid, fresh>>
    /\ UNCHANGED <<wvars, svars, pvars, rvars>>

NextColumns == \E i \in 1 .. MaxCols : RemoveColumn(i)

InitColumns ==
    /\ JobInit({1}, {1}, {0})
    /\ StoreInit({MaxRetries})
    /\ PrettyInit({NoStmt})
    /\ TableInit({NoTable}, AllColumns)
    /\ RunInit({FALSE}, {0}, {0})

SpecColumns == InitColumns /\ [][NextColumns]_vars

(* -------------------------------- run ---------------------------------- *)
\* if dropSchema { for _, stmt := range schema.GetDropSchema() {
\*     if err := session.Mutate(stmt); err != nil { return } } }
DropStmt ==
    /\ pcMain = "drop"
    /\ dropSchema
    /\ ri < dropStmts
    /\ \E err \in SchemaResults :
         /\ applied' = Append(applied, [kind |-> "drop", i |-> ri, err |-> err])
         /\ pcMain' = AfterSchemaMutate(err, "drop")
    /\ ri' = ri + 1
    /\ UNCHANGED <<dropSchema, dropStmts, createStmts>>
    /\ UNCHANGED <<svars, pvars, tvars>>
    /\ UNCHANGED <<rngPos, threads, pkNumberPerThread, maxTests, li, gi, testRes,
                   pc, iter, testStatus, p, mutPk, chkPk, hist, recv>>

\* The flag is not set, or the drop statements are exhausted: on to the create loop.
DropDone ==
    /\ pcMain = "drop"
    /\ ~(dropSchema /\ ri < dropStmts)
    /\ pcMain' = "create"
    /\ ri' = 0
    /\ UNCHANGED <<dropSchema, dropStmts, createStmts, applied>>
    /\ UNCHANGED <<svars, pvars, tvars>>
    /\ UNCHANGED <<rngPos, threads, pkNumberPerThread, maxTests, li, gi, testRes,
                   pc, iter, testStatus, p, mutPk, chkPk, hist, recv>>

\* for _, stmt := range schema.GetCreateSchema() {
\*     if err := session.Mutate(stmt); err != nil { return } }
CreateStmt ==
    /\ pcMain = "create"
    /\ ri < createStmts
    /\ \E err \in SchemaResults :
         /\ applied' = Append(applied, [kind |-> "create", i |-> ri, err |-> err])
         /\ pcMain' = AfterSchemaMutate(err, "create")
    /\ ri' = ri + 1
    /\ UNCHANGED <<dropSchema, dropStmts, createStmts>>
    /\ UNCHANGED <<svars, pvars, tvars>>
    /\ UNCHANGED <<rngPos, threads, pkNumberPerThread, maxTests, li, gi, testRes,
                   pc, iter, testStatus, p, mutPk, chkPk, hist, recv>>

\* The create statements are exhausted: runJob(MixedJob, schema, session).
CreateDone ==
    /\ pcMain = "create"
    /\ ~(ri < createStmts)
    /\ pcMain' = "launch"
    /\ UNCHANGED rvars
    /\ UNCHANGED <<svars, pvars, tvars>>
    /\ UNCHANGED <<rngPos, threads, pkNumberPerThread, maxTests, li, gi, testRes,
                   pc, iter, testStatus, p, mutPk, chkPk, hist, recv>>

NextRun ==
    \/ DropStmt
    \/ DropDone
    \/ CreateStmt
    \/ CreateDone
    \/ Launch
    \/ LaunchDone
    \/ \E w \in Workers : Receive(w)
    \/ GatherDone
    \/ \E w \in Workers : MutateDispatch(w)
    \/ \E w \in Workers : MutateReturn(w)
    \/ \E w \in Workers : CheckDispatch(w)
    \/ \E w \in Workers : CheckReturn(w)
    \/ \E w \in Workers : LoopExit(w)

\* run about to set up the schema.
InitRun ==
    /\ JobState(1 .. MaxThreads, {1}, 0 .. 1)
    /\ pcMain = "drop"
    /\ StoreInit({MaxRetries})
    /\ PrettyInit({NoStmt})
    /\ TableInit({NoTable}, {<<>>})
    /\ RunInit({FALSE, TRUE}, 0 .. MaxStmts, 0 .. MaxStmts)

SpecRun == InitRun /\ [][NextRun]_vars

(* ======================= properties of runJob ========================== *)
\* The workers runJob is to launch.
Launched == 0 .. (threads - 1)

\* Field f of the Statuses of the workers in S, added up.
RECURSIVE SumField(_, _)
SumField(f, S) ==
    IF S = {} THEN 0
    ELSE LET w == CHOOSE x \in S : TRUE
         IN  testStatus[w][f] + SumField(f, S \ {w})

\* The field-by-field sum of the Statuses of the workers in S.
SumStatus(S) ==
    [WriteOps    |-> SumField("WriteOps", S),
     WriteErrors |-> SumField("WriteErrors", S),
     ReadOps     |-> SumField("ReadOps", S),
     ReadErrors  |-> SumField("ReadErrors", S)]

\* The workers a Status was received from.
Received == {recv[k] : k \in 1 .. Len(recv)}

\* C1: every launched worker i holds the half-open range [i*K, (i+1)*K); once all
\* N workers are launched their ranges are pairwise disjoint and their union is
\* exactly [0, N*K).
Thm_C1 ==
    /\ \A i \in Workers :
         pc[i] # "idle" =>
           /\ p[i].Min = i * pkNumberPerThread
           /\ p[i].Max = (i + 1) * pkNumberPerThread
           /\ GenPartition(p[i]) = (i * pkNumberPerThread) .. ((i + 1) * pkNumberPerThread - 1)
    /\ pcMain # "launch" =>
         /\ \A i, j \in Launched :
              i # j => GenPartition(p[i]) \cap GenPartition(p[j]) = {}
         /\ UNION {GenPartition(p[i]) : i \in Launched}
              = 0 .. (threads * pkNumberPerThread - 1)

\* C1 happens: two workers are launched, each with a range of two keys.
Wit_C1 ==
    /\ pcMain = "gather"
    /\ threads = 2
    /\ pkNumberPerThread = 2
    /\ p[1] = [Min |-> 2, Max |-> 4]

\* C2: runJob launches exactly N workers and receives exactly N Statuses, one from
\* each worker; at every moment the total is the field-by-field sum of the
\* Statuses received so far, so at the end it is the sum over the N workers, in
\* whatever order they finished; when runJob has finished no worker is blocked
\* on the channel.
Thm_C2 ==
    /\ li <= threads
    /\ gi <= threads
    /\ Cardinality({w \in Workers : pc[w] # "idle"}) = li
    /\ Len(recv) = gi
    /\ Cardinality(Received) = Len(recv)
    /\ Received = {w \in Workers : pc[w] = "done"}
    /\ testRes = SumStatus(Received)
    /\ pcMain = "done" =>
         /\ li = threads
         /\ gi = threads
         /\ Received = Launched
         /\ testRes = SumStatus(Launched)
         /\ \A w \in Workers : pc[w] \in {"idle", "done"}
         /\ \A w \in Launched : pc[w] = "done" /\ hist[w].sends = 1

\* C2 happens: runJob has finished after worker 1 delivered before worker 0, the
\* two with different Statuses.
Wit_C2 ==
    /\ pcMain = "done"
    /\ recv = <<1, 0>>
    /\ testStatus[0].WriteErrors # testStatus[1].WriteErrors
    /\ testStatus[0].ReadOps # testStatus[1].ReadOps

\* C3: every worker runs exactly maxTests iterations, each with exactly one mutate
\* and one check, whatever the store returns; it sends its Status once, after
\* the last iteration; every Status sent has WriteOps = M and the total has
\* WriteOps = N*M.
Thm_C3 ==
    /\ \A w \in Workers :
         /\ iter[w] <= maxTests
         /\ hist[w].mutDispatched
              = iter[w] + (IF pc[w] \in {"mutate", "gen_check", "check"} THEN 1 ELSE 0)
         /\ hist[w].chkDispatched = iter[w] + (IF pc[w] = "check" THEN 1 ELSE 0)
         /\ hist[w].chkReturned = iter[w]
         /\ testStatus[w].WriteOps = hist[w].mutDispatched
         /\ pc[w] \in {"send", "done"} =>
              /\ iter[w] = maxTests
              /\ hist[w].mutDispatched = maxTests
              /\ hist[w].chkDispatched = maxTests
              /\ testStatus[w].WriteOps = maxTests
         /\ hist[w].sends = (IF pc[w] = "done" THEN 1 ELSE 0)
    /\ pcMain = "done" => testRes.WriteOps = threads * maxTests

\* C3 happens: a run of two workers and two iterations has finished although
\* mutates and checks failed.
Wit_C3 ==
    /\ pcMain = "done"
    /\ threads = 2
    /\ maxTests = 2
    /\ hist[0].mutFailed = 2
    /\ hist[1].chkFailed = 1
    /\ hist[1].chkEmpty = 1
    /\ testRes.WriteOps = 4

\* C4: in one worker a check is dispatched only when the mutate of its iteration
\* has returned, and a mutate only when the check of the iteration before has
\* returned: at most one store call of a worker is in flight, checks dispatched
\* never outnumber mutates returned, and mutates dispatched exceed checks
\* returned by at most one.
Thm_C4 ==
    \A w \in Workers :
      /\ hist[w].mutReturned <= hist[w].mutDispatched
      /\ hist[w].chkReturned <= hist[w].chkDispatched
      /\ hist[w].chkDispatched <= hist[w].mutReturned
      /\ hist[w].mutDispatched <= hist[w].chkReturned + 1
      /\ (hist[w].mutDispatched - hist[w].mutReturned)
           + (hist[w].chkDispatched - hist[w].chkReturned) <= 1
      /\ pc[w] = "check" => hist[w].mutReturned = hist[w].chkDispatched
      /\ pc[w] = "mutate" => hist[w].chkReturned = hist[w].mutDispatched - 1

\* C4 happens, and no order is imposed across workers: worker 1 is in the check
\* of its second iteration while worker 0, launched before it, has not yet
\* dispatched its first mutate.
Wit_C4 ==
    /\ pc[1] = "check"
    /\ hist[1].chkReturned = 1
    /\ pc[0] = "loop"
    /\ hist[0].mutDispatched = 0
    /\ maxTests = 2

\* C5 as stated: the check statement of an iteration addresses the partition of
\* the mutate statement of that iteration.
Orig_C5 ==
    \A w \in Workers : pc[w] = "check" => chkPk[w] = mutPk[w]

\* C5 amended: the check statement of an iteration addresses a partition of the
\* worker's own PartitionRange, the range the mutate statement of that iteration
\* was generated for; with one key per thread it is the same partition.
Thm_C5 ==
    \A w \in Workers :
      /\ pc[w] \in {"mutate", "gen_check", "check"} =>
           /\ w * pkNumberPerThread <= mutPk[w]
           /\ mutPk[w] < (w + 1) * pkNumberPerThread
      /\ pc[w] = "check" =>
           /\ w * pkNumberPerThread <= chkPk[w]
           /\ chkPk[w] < (w + 1) * pkNumberPerThread
           /\ pkNumberPerThread = 1 => chkPk[w] = mutPk[w]

\* C5 happens: worker 1 checks a partition of its range other than the one it
\* has just mutated.
Wit_C5 ==
    /\ pc[1] = "check"
    /\ mutPk[1] = 2
    /\ chkPk[1] = 3

\* C6: every check that returned is counted in exactly one way: nil in ReadOps,
\* ErrReadNoDataReturned nowhere, any other error in ReadErrors; so a worker
\* that is done with its loop has ReadOps + ReadErrors + empty reads = M.
Thm_C6 ==
    \A w \in Workers :
      /\ testStatus[w].ReadOps = hist[w].chkNil
      /\ testStatus[w].ReadErrors = hist[w].chkFailed
      /\ testStatus[w].ReadOps + testStatus[w].ReadErrors + hist[w].chkEmpty
           = hist[w].chkReturned
      /\ pc[w] \in {"send", "done"} =>
           testStatus[w].ReadOps + testStatus[w].ReadErrors + hist[w].chkEmpty = maxTests

\* C6 happens: runJob has received the Status of a worker that had one empty read
\* and one failed check, and of a worker that had a successful check.
Wit_C6 ==
    /\ pcMain = "done"
    /\ hist[0].chkEmpty = 1
    /\ hist[0].chkFailed = 1
    /\ testStatus[0].ReadOps = 0
    /\ testStatus[0].ReadErrors = 1
    /\ hist[1].chkNil >= 1

\* C7: WriteErrors is the number of mutate calls that returned an error, never
\* more than WriteOps; a failed mutate does not end the iteration: its check is
\* dispatched next.
Thm_C7 ==
    \A w \in Workers :
      /\ testStatus[w].WriteErrors = hist[w].mutFailed
      /\ testStatus[w].WriteErrors <= testStatus[w].WriteOps
      /\ hist[w].mutErr # Nil => pc[w] \in {"gen_check", "check"}
      /\ hist[w].chkAfterFail
           = hist[w].mutFailed - (IF pc[w] = "gen_check" /\ hist[w].mutErr # Nil THEN 1 ELSE 0)

\* C7 happens: a worker is in the check of an iteration whose mutate failed, after
\* an iteration whose mutate failed too.
Wit_C7 ==
    \E w \in Workers :
      /\ pc[w] = "check"
      /\ hist[w].mutErr # Nil
      /\ testStatus[w].WriteErrors = 2
      /\ testStatus[w].WriteOps = 2
      /\ hist[w].chkAfterFail = 2

(* =================== properties of cqlStore.mutate ===================== *)
\* A call of mutate has returned to the caller.
Returned == spc = "idle" /\ calls >= 1

\* The attempts of the current call before the last one.
Earlier == 1 .. (Len(attempts) - 1)

\* What the caller has counted for the current call.
CountedOps == callerStatus.WriteOps - statusAtCall.WriteOps
CountedErrors == callerStatus.WriteErrors - statusAtCall.WriteErrors

\* C8 as stated: a call whose store failed transiently k times and then succeeded
\* returns nil, counted as one WriteOp and no WriteError; a call whose store
\* failed transiently in all of its maxRetriesMutate (>= 1) attempts returns the
\* error of the last attempt, counted as one WriteError.
Claim_C8 ==
    Returned =>
      /\ ( /\ Len(attempts) >= 1
           /\ attempts[Len(attempts)] = Nil
           /\ \A j \in Earlier : attempts[j] \in TransientErrs )
         => (ret = Nil /\ CountedOps = 1 /\ CountedErrors = 0)
      /\ ( /\ maxRetriesMutate >= 1
           /\ Len(attempts) = maxRetriesMutate
           /\ \A j \in 1 .. Len(attempts) : attempts[j] \in TransientErrs )
         => (ret = Wrapf(attempts[Len(attempts)]) /\ CountedOps = 1 /\ CountedErrors = 1)

\* C9: a call of mutate makes at most maxRetriesMutate attempts (none when the
\* bound is not positive), and none after an attempt that succeeded: only the
\* last attempt of a call can be a success, and then the call has returned.
Thm_C9 ==
    /\ Len(attempts) <= (IF maxRetriesMutate < 0 THEN 0 ELSE maxRetriesMutate)
    /\ \A j \in Earlier : doMutate(attempts[j]) # Nil
    /\ (Len(attempts) >= 1 /\ doMutate(attempts[Len(attempts)]) = Nil) => spc = "idle"
    /\ spc = "loop" => Len(attempts) = si
    /\ spc = "select" => Len(attempts) = si + 1

\* C9 happens: a call has used up its two attempts and returned.
Wit_C9 ==
    /\ Returned
    /\ maxRetriesMutate = 2
    /\ attempts = <<"e1", "e2">>
    /\ ret = "wrapped(e2)"

\* C10: an attempt whose query failed with context.Canceled or
\* context.DeadlineExceeded is the last of its call, and the call has returned
\* nil, counted as no error; an attempt whose query failed with any other error
\* hands that error, wrapped, to the retry loop.
Thm_C10 ==
    /\ \A j \in 1 .. Len(attempts) :
         attempts[j] \in ContextErrs =>
           /\ j = Len(attempts)
           /\ spc = "idle"
           /\ serr = Nil
           /\ ret = Nil
           /\ CountedErrors = 0
    /\ \A j \in Earlier : attempts[j] \in TransientErrs
    /\ spc = "select" =>
         /\ attempts[Len(attempts)] \in TransientErrs
         /\ serr = Wrapf(attempts[Len(attempts)])

\* C10 happens: the deadline of the context passed, the second attempt of a call
\* failed with context.DeadlineExceeded, and the call returned nil.
Wit_C10 ==
    /\ Returned
    /\ ctxErr = DeadlineExceeded
    /\ attempts = <<"e1", DeadlineExceeded>>
    /\ ret = Nil
    /\ maxRetriesMutate = 2

(* ============ properties of MixedJob: cancellation, PRNG =============== *)
\* C11 as stated: once the context is cancelled a worker starts no further
\* iteration, and runJob still receives one Status from each worker.
Claim_C11 ==
    /\ [][\A w \in Workers : (ctxErr # Nil /\ pc[w] = "loop") => pc'[w] # "mutate"]_vars
    /\ [](pcMain = "done" => \A w \in Launched : hist[w].sends = 1)

\* The draws worker w has made: one for each statement it has generated.
Draws(w) == hist[w].mutDispatched + hist[w].chkDispatched

\* C12 as stated: a worker draws from a PRNG of its own, shared with no other
\* worker: whenever worker w draws, the source it draws from stands at the
\* number of draws w has made before, so the position, and with it the value,
\* of the k-th draw of w is the same under every interleaving.
Claim_C12 ==
    [][\A w \in Workers : Draws(w)' # Draws(w) => rngPos = Draws(w)]_vars

(* ===================== properties of the pretty printer ================= *)
\* sum of LenValue over the types
RECURSIVE SumLenValue(_)
SumLenValue(types) ==
    IF Len(types) = 0 THEN 0 ELSE LenValue(Head(types)) + SumLenValue(Tail(types))

\* C13: for every Stmt whose values are not shorter than its types require
\* (len(values) >= sum of LenValue over the types), the string PrettyCQL returns
\* holds no question mark, whatever the bound values, those whose printed
\* literal holds a question mark included.
Claim_C13 ==
    (ppc = "done" /\ Len(stmt.Values) >= SumLenValue(stmt.Types)) => ~HasHole(query)

\* "p1,...,pn": the printed literals of the elements, in order, joined by commas.
RECURSIVE JoinLiterals(_)
JoinLiterals(s) ==
    IF Len(s) = 0 THEN <<>>
    ELSE IF Len(s) = 1 THEN Literal(s[1])
    ELSE Literal(s[1]) \o <<",">> \o JoinLiterals(Tail(s))

\* C14: BagType.CQLPretty on a query and a non-empty value list whose first
\* value is a sequence e1..en returns the query with only its leftmost question
\* mark replaced by [p1,...,pn] (list) or {p1,...,pn} (set), pi the printed
\* literal of ei, and reports 1 value consumed; the rest of the query is kept.
Claim_C14 ==
    (/\ lastCall.made
     /\ lastCall.typ.kind = "bag"
     /\ Len(lastCall.values) > 0
     /\ lastCall.values[1].k = "slice")
    => LET s == lastCall.values[1].s
           op == IF lastCall.typ.ComplexType = TYPE_SET THEN "{" ELSE "["
           cl == IF lastCall.typ.ComplexType = TYPE_SET THEN "}" ELSE "]"
       IN  lastCall.out =
               Yield(ReplaceFirst(lastCall.query, <<op>> \o JoinLiterals(s) \o <<cl>>), 1)

\* C20: BagType.CQLPretty with a first value that is no sequence panics and
\* returns no query (PrettyCQL ends in the panic, its query untouched); it never
\* returns a changed query for a value that is no sequence; with an empty value
\* list it returns the query unchanged and 0 consumed.
Thm_C20 ==
    (lastCall.made /\ lastCall.typ.kind = "bag")
    => /\ Len(lastCall.values) = 0 => lastCall.out = Yield(lastCall.query, 0)
       /\ (Len(lastCall.values) > 0 /\ lastCall.values[1].k # "slice")
            => (lastCall.out.panic /\ ppc = "panic" /\ query = lastCall.query)
       /\ (~lastCall.out.panic /\ lastCall.out.query # lastCall.query)
            => (Len(lastCall.values) > 0 /\ lastCall.values[1].k = "slice")

\* A bag type met a text value.
Wit_C20 ==
    /\ lastCall.made
    /\ lastCall.typ.kind = "bag"
    /\ Len(lastCall.values) > 0
    /\ lastCall.values[1].k = "text"
    /\ ppc = "panic"

(* ================= properties of Columns and of the table =============== *)
\* The names of the columns with an index, and of the columns that are the
\* NonPrimaryKey of a materialized view.
IndexedNames(t) == {t.Indexes[i].Column.Name : i \in 1 .. Len(t.Indexes)}
ViewedNames(t) ==
    {t.MaterializedViews[i].NonPrimaryKey.Name :
        i \in {j \in 1 .. Len(t.MaterializedViews) :
                  t.MaterializedViews[j].NonPrimaryKey # NoColumn}}
Members(c) == {c[i] : i \in 1 .. Len(c)}

\* C15 as stated: ValidColumnsForDelete() returns exactly the non-key columns
\* that are the NonPrimaryKey of no materialized view, in table order.
Orig_C15 ==
    fresh => LET Keep(c) == c.Name \notin ViewedNames(table)
             IN  valid = SelectSeq(table.Columns, Keep)

\* C15, amended: ValidColumnsForDelete() returns exactly the non-key columns that
\* are neither the column of an index nor the NonPrimaryKey of a materialized
\* view, in table order; setting the NonPrimaryKey of a view to column c removes
\* c from the result and removes no other column.
Thm_C15 ==
    /\ [](fresh => LET Keep(c) == /\ c.Name \notin IndexedNames(table)
                                  /\ c.Name \notin ViewedNames(table)
                   IN  valid = SelectSeq(table.Columns, Keep))
    /\ [][\A i \in 1 .. Len(table.MaterializedViews) :
            (/\ Len(table.MaterializedViews') = Len(table.MaterializedViews)
             /\ table.MaterializedViews'[i] # table.MaterializedViews[i])
            => LET c == table.MaterializedViews'[i].NonPrimaryKey
                   before == Members(ValidColumnsForDelete(table))
                   after == Members(ValidColumnsForDelete(table'))
               IN  c \notin after /\ before \ {c} \subseteq after]_vars

\* An indexed column and a viewed column are both held back, another is returned.
Wit_C15 ==
    /\ fresh
    /\ IndexedNames(table) # {}
    /\ ViewedNames(table) \ IndexedNames(table) # {}
    /\ Len(valid) > 0

\* C16: for a Columns sequence with unique names, Len is the number of columns
\* and Names lists their names in order; NonCounters is exactly the columns
\* whose type is no counter, in order; Remove(c) for a member c returns the
\* sequence without c, one shorter, the others in their order; with every
\* column removed Len is 0 and there are no names.
Thm_C16 ==
    /\ ColumnsLen(cols) = Cardinality({cols[i].Name : i \in 1 .. Len(cols)})
    /\ DOMAIN Names(cols) = DOMAIN cols
    /\ \A i \in DOMAIN cols : Names(cols)[i] = cols[i].Name
    /\ LET NoCounter(c) == c.Type # "counter"
       IN  NonCounters(cols) = SelectSeq(cols, NoCounter)
    /\ removed.made =>
         /\ LET Other(c) == c # removed.column
            IN  removed.out = SelectSeq(removed.from, Other)
         /\ removed.column \notin Members(removed.out)
         /\ ColumnsLen(removed.out) = ColumnsLen(removed.from) - 1
         /\ cols = removed.out
    /\ Members(cols) = {} => (ColumnsLen(cols) = 0 /\ Names(cols) = <<>>)

\* The first of several columns was removed, and a counter is among those left.
Wit_C16 ==
    /\ removed.made
    /\ Len(removed.from) >= 2
    /\ removed.column = removed.from[1]
    /\ \E i \in 1 .. Len(cols) : cols[i].Type = "counter"
    /\ Len(NonCounters(cols)) < Len(cols)

(* ================== properties of cqlStore.mutate, continued ============ *)
\* C18: cancellation is checked at each sleep boundary of the retry loop: with
\* the context cancelled when an attempt has failed, or while mutate sleeps after
\* it, mutate returns the context's error and makes no further attempt (the only
\* step mutate takes out of the select is the return of ctx.Err()).
Claim_C18 ==
    [][(spc = "select" /\ ctxErr # Nil)
         => \/ spc' = "select"
            \/ (spc' = "idle" /\ ret' = ctxErr /\ attempts' = attempts)]_vars

\* C19: mutate sleeps only between two attempts: a call that has returned after
\* a attempts has slept a - 1 times, no sleep following the final attempt.
Claim_C19 ==
    (spc = "idle" /\ Len(attempts) > 0) => sleeps = Len(attempts) - 1

\* C21: mutate returns no error only if at least one of its attempts was
\* executed and succeeded, whatever maxRetriesMutate is (0 and negative values
\* included): success is never reported for a mutation that was not applied.
Claim_C21 ==
    (Returned /\ ret = Nil)
    => (Len(attempts) >= 1 /\ attempts[Len(attempts)] = Nil)

(* ========================== properties of run =========================== *)
\* The positions in applied of the statements of one kind.
AppliedOf(kind) == {k \in 1 .. Len(applied) : applied[k].kind = kind}

\* Some worker has been launched.
AnyLaunched == li > 0 \/ \E w \in Workers : pc[w] # "idle"

\* C22: schema setup strictly precedes the workload: with drop-schema set every
\* drop statement is applied before any create statement (and none is applied
\* without the flag), every create statement is applied before any worker is
\* launched, and a failed schema statement makes run return at once, with no
\* later statement applied and no worker launched.
Thm_C22 ==
    /\ [](/\ \A j, k \in 1 .. Len(applied) :
                (j < k /\ applied[j].kind = "create") => applied[k].kind = "create"
          /\ ~dropSchema => AppliedOf("drop") = {}
          /\ (dropSchema /\ AppliedOf("create") # {})
               => {applied[k].i : k \in AppliedOf("drop")} = 0 .. (dropStmts - 1)
          /\ AnyLaunched
               => /\ {applied[k].i : k \in AppliedOf("create")} = 0 .. (createStmts - 1)
                  /\ \A k \in 1 .. Len(applied) : applied[k].err = Nil
          /\ \A k \in 1 .. Len(applied) :
                applied[k].err # Nil
                  => (k = Len(applied) /\ pcMain = "returned" /\ ~AnyLaunched))
    /\ [][applied' # applied => (~AnyLaunched /\ ~AnyLaunched')]_vars

\* The schema was dropped and created, several statements each, and the workers run.
Wit_C22 ==
    /\ dropSchema
    /\ Cardinality(AppliedOf("drop")) >= 2
    /\ Cardinality(AppliedOf("create")) >= 2
    /\ li = threads
    /\ \E w \in Workers : hist[w].mutDispatched > 0

====
